---- MODULE Spec2Model ----
(***************************************************************************)
(* Model of common/src/fold.rs: the type-directed Fold / Visit traversal   *)
(* engine, its default structural recursion (FoldWith / VisitWith for the  *)
(* built-in shapes), the Box<F> / &mut F forwarding impls and the AndThen  *)
(* combinator.                                                             *)
(*                                                                         *)
(* A node is a record [t, v, cs]: t is its static Rust type (the key of    *)
(* impl selection), v its leaf contents or variant tag, cs the sequence of *)
(* its children.  A traverser is a record [kind, ty, st, subs]: a "Base"    *)
(* traverser is an object of the type named ty, whose author wrote the     *)
(* specific impls listed in FoldImpls / VisitImpls, with mutable state st; *)
(* "AndThen", "Box" and "RefMut" hold their parts in subs.                 *)
(* fold / visit are computed as the code computes them; besides the result *)
(* they return the log of impl invocations, in call order.                 *)
(***************************************************************************)
EXTENDS Integers, Sequences, FiniteSets, TLC

VARIABLES f, node, log, op, f0, node0

vars == <<f, node, log, op, f0, node0>>

(* ---------------------------------------------------------------- bounds *)

\* longest Vec<T> drawn as an input
MaxLen == 2
\* most Base traversers chained by then
MaxParts == 3
\* most Box<F> / &mut F wrappers around traversers
MaxWrap == 1

(* ------------------------------------------------------------ node types *)

LeafTypes == {"String", "Atom"}

\* The node types of the model: the built-in shapes of fold.rs instantiated
\* at leaves and nested in one another, and the uninhabited type.  Elem is
\* the three-way sum "a leaf, an optional leaf or an alternative of leaves".
TypeDef ==
  [ String   |-> [shape |-> "String", args |-> <<>>],
    Atom     |-> [shape |-> "Atom",   args |-> <<>>],
    Never    |-> [shape |-> "Never",  args |-> <<>>],
    BoxStr   |-> [shape |-> "Box",    args |-> <<"String">>],
    VecStr   |-> [shape |-> "Vec",    args |-> <<"String">>],
    OptStr   |-> [shape |-> "Option", args |-> <<"String">>],
    EitherSA |-> [shape |-> "Either", args |-> <<"String", "Atom">>],
    VecOpt   |-> [shape |-> "Vec",    args |-> <<"OptStr">>],
    OptVec   |-> [shape |-> "Option", args |-> <<"VecStr">>],
    BoxEither|-> [shape |-> "Box",    args |-> <<"EitherSA">>],
    VecNever |-> [shape |-> "Vec",    args |-> <<"Never">>],
    EitherSS |-> [shape |-> "Either", args |-> <<"String", "String">>],
    EitherOE |-> [shape |-> "Either", args |-> <<"OptStr", "EitherSS">>],
    Elem     |-> [shape |-> "Either", args |-> <<"String", "EitherOE">>],
    VecElem  |-> [shape |-> "Vec",    args |-> <<"Elem">>] ]

TypeNames == DOMAIN TypeDef

ShapeOf(n) == TypeDef[n.t].shape

\* leaf contents drawn as inputs
Alphabet == {"a", "b"}

Leaf(t, s) == [t |-> t, v |-> s, cs |-> <<>>]
MkBox(t, c) == [t |-> t, v |-> "Box", cs |-> <<c>>]
MkVec(t, es) == [t |-> t, v |-> "Vec", cs |-> es]
None(t) == [t |-> t, v |-> "None", cs |-> <<>>]
Some(t, c) == [t |-> t, v |-> "Some", cs |-> <<c>>]
Left(t, c) == [t |-> t, v |-> "Left", cs |-> <<c>>]
Right(t, c) == [t |-> t, v |-> "Right", cs |-> <<c>>]

SeqsUpTo(S, k) == UNION {[1..i -> S] : i \in 0..k}

RECURSIVE ValuesOf(_)
\* every value of type t with sequences of at most MaxLen elements
ValuesOf(t) ==
  LET d == TypeDef[t] IN
  CASE d.shape \in {"String", "Atom"} -> {Leaf(t, s) : s \in Alphabet}
    [] d.shape = "Never"  -> {}
    [] d.shape = "Box"    -> {MkBox(t, c) : c \in ValuesOf(d.args[1])}
    [] d.shape = "Vec"    -> {MkVec(t, es) : es \in SeqsUpTo(ValuesOf(d.args[1]), MaxLen)}
    [] d.shape = "Option" -> {None(t)} \cup {Some(t, c) : c \in ValuesOf(d.args[1])}
    [] d.shape = "Either" -> {Left(t, c) : c \in ValuesOf(d.args[1])}
                               \cup {Right(t, c) : c \in ValuesOf(d.args[2])}

\* the three injections into Elem
ElemLeaf(n) == Left("Elem", n)
ElemOptional(n) == Right("Elem", Left("EitherOE", n))
ElemAlt(n) == Right("Elem", Right("EitherOE", n))

\* the tree Seq[Leaf("a"), Optional(Some(Leaf("b"))), Alt.First(Leaf("c"))]
\* with leaf texts x, y, z
Scene(x, y, z) ==
  MkVec("VecElem", << ElemLeaf(Leaf("String", x)),
                      ElemOptional(Some("OptStr", Leaf("String", y))),
                      ElemAlt(Left("EitherSS", Leaf("String", z))) >>)

SceneTree == Scene("a", "b", "c")

Nodes == UNION {ValuesOf(t) : t \in TypeNames} \cup {SceneTree}

(* ------------------------------------------------------------ traversers *)

NoRules == [t \in TypeNames |-> "none"]

Rules(assign) == [t \in TypeNames |-> IF t \in DOMAIN assign THEN assign[t] ELSE "none"]

\* The traverser types F of the model and the specific impls Fold<T> for F
\* their authors wrote, by node type T ("none": only the default applies).
\*   Plain    no specific rule at all
\*   Upper    uppercases leaf text
\*   Number   stateful: numbers the leaves in the order it meets them
\*   Mark     rewrites uppercase leaf text to "X"
\*   SeqRule  rules for sequence and sum types, numbers the leaves
\*   OptRule  rules for the optional types themselves
FoldImpls ==
  [ Plain   |-> NoRules,
    Upper   |-> Rules([String |-> "upper"]),
    Number  |-> Rules([String |-> "number"]),
    Mark    |-> Rules([String |-> "mark", Atom |-> "mark"]),
    SeqRule |-> Rules([VecStr |-> "rev", VecOpt |-> "skip", EitherSA |-> "skip",
                       String |-> "number"]),
    OptRule |-> Rules([OptStr |-> "fill", OptVec |-> "drop"]) ]

\* the specific impls Visit<T> for F of the same types: Upper and Number
\* count leaves when observing
VisitImpls ==
  [ Plain   |-> NoRules,
    Upper   |-> Rules([String |-> "count"]),
    Number  |-> Rules([String |-> "count", Atom |-> "count"]),
    Mark    |-> NoRules,
    SeqRule |-> Rules([VecStr |-> "count_rec", VecOpt |-> "skip", EitherSA |-> "skip",
                       String |-> "count"]),
    OptRule |-> Rules([OptStr |-> "skip", OptVec |-> "count_rec"]) ]

\* a freshly constructed object of traverser type ty; st is its mutable state
Base(ty) == [kind |-> "Base", ty |-> ty, st |-> 0, subs |-> <<>>]

\* Fold::then / Visit::then
Then(self, folder) == [kind |-> "AndThen", ty |-> "AndThen", st |-> 0, subs |-> <<self, folder>>]

\* Box::new(f) and &mut f
BoxOf(x) == [kind |-> "Box", ty |-> "Box", st |-> 0, subs |-> <<x>>]
RefMutOf(x) == [kind |-> "RefMut", ty |-> "RefMut", st |-> 0, subs |-> <<x>>]

Plain == Base("Plain")
Upper == Base("Upper")
Number == Base("Number")
Mark == Base("Mark")
SeqRule == Base("SeqRule")
OptRule == Base("OptRule")

Profiles == {Base(ty) : ty \in DOMAIN FoldImpls}

\* the specific rule of x's type for node type t
FRule(x, t) == FoldImpls[x.ty][t]
VRule(x, t) == VisitImpls[x.ty][t]

RECURSIVE Parts(_)
\* number of Base traversers in x
Parts(x) == IF x.kind = "Base" THEN 1
            ELSE IF x.kind = "AndThen" THEN Parts(x.subs[1]) + Parts(x.subs[2])
            ELSE Parts(x.subs[1])

RECURSIVE Wraps(_)
\* number of Box / &mut wrappers in x
Wraps(x) == IF x.kind = "Base" THEN 0
            ELSE IF x.kind = "AndThen" THEN Wraps(x.subs[1]) + Wraps(x.subs[2])
            ELSE 1 + Wraps(x.subs[1])

(* ------------------------------------------------------- rule vocabulary *)

\* str::to_uppercase on the leaf texts of the model
ToUpper(s) == CASE s = "a" -> "A" [] s = "b" -> "B" [] s = "c" -> "C" [] OTHER -> s

IsUpper(s) == s \in {"A", "B", "C"}

Reverse(s) == [i \in 1..Len(s) |-> s[Len(s) + 1 - i]]

\* one log entry: component `path` of the traverser ran its specific rule
\* ("rule") or the default impl ("default") on node n
Ev(how, n) == [path |-> <<>>, how |-> how, n |-> n]

Prefix(i, l) == [k \in 1..Len(l) |-> [l[k] EXCEPT !.path = <<i>> \o @]]

(* ------------------------------------------------------------------ fold *)

\* what a fold returns: the rebuilt node, the traverser as the walk left it,
\* and the impl invocations it made
Res(n, x, l) == [node |-> n, f |-> x, log |-> l]

RECURSIVE Fold(_, _)
RECURSIVE FoldChildren(_, _)
RECURSIVE FoldEach(_, _)

\* the author's impl Fold<T> for F: `fn fold(&mut self, node: T) -> T` of the
\* rule named FRule(x, n.t)
FoldRule(x, n) ==
  LET r == FRule(x, n.t) IN
  CASE r = "upper"  -> Res([n EXCEPT !.v = ToUpper(@)], x, <<Ev("rule", n)>>)
    [] r = "number" -> Res([n EXCEPT !.v = ToString(x.st)], [x EXCEPT !.st = @ + 1],
                           <<Ev("rule", n)>>)
    [] r = "mark"   -> Res([n EXCEPT !.v = IF IsUpper(@) THEN "X" ELSE @], x,
                           <<Ev("rule", n)>>)
    [] r = "skip"   -> Res(n, x, <<Ev("rule", n)>>)
    [] r = "rev"    -> LET c == FoldChildren(n, x) IN
                       Res([c.node EXCEPT !.cs = Reverse(@)], c.f, <<Ev("rule", n)>> \o c.log)
    [] r = "fill"   -> IF n.v = "None"
                       THEN Res(Some(n.t, Leaf(TypeDef[n.t].args[1], "z")), x, <<Ev("rule", n)>>)
                       ELSE LET c == FoldChildren(n, x) IN
                            Res(c.node, c.f, <<Ev("rule", n)>> \o c.log)
    [] r = "drop"   -> Res(None(n.t), x, <<Ev("rule", n)>>)

\* impl<T, F> Fold<T> for F: default fn fold
FoldDefault(x, n) ==
  LET c == FoldChildren(n, x) IN Res(c.node, c.f, <<Ev("default", n)>> \o c.log)

\* selection that runs the specific rule and the default recursion as well
FoldDispatchBoth(x, n) ==
  IF FRule(x, n.t) # "none"
  THEN LET r == FoldRule(x, n)
           d == FoldDefault(r.f, r.node)
       IN  Res(d.node, d.f, r.log \o d.log)
  ELSE FoldDefault(x, n)

\* which impl of Fold<T> the compiler selects for a Base traverser: the
\* author's specific impl when there is one for (F, T), else the default fn
FoldDispatch(x, n) ==
  IF FRule(x, n.t) # "none" THEN FoldRule(x, n) ELSE FoldDefault(x, n)

\* Box<F>::fold falling back to the default structural recursion
FoldBoxDefault(x, n) ==
  LET r == FoldDefault(x.subs[1], n) IN Res(r.node, [x EXCEPT !.subs = <<r.f>>], r.log)

\* impl Fold<T> for Box<F>
FoldBox(x, n) ==
  LET r == Fold(x.subs[1], n) IN Res(r.node, [x EXCEPT !.subs = <<r.f>>], r.log)

\* impl Fold<T> for &'a mut F
FoldRefMut(x, n) ==
  LET r == Fold(x.subs[1], n) IN Res(r.node, [x EXCEPT !.subs = <<r.f>>], r.log)

\* AndThen::fold handing the original node to the second folder
FoldAndThenOriginal(x, n) ==
  LET r1 == Fold(x.subs[1], n)
      r2 == Fold(x.subs[2], n)
  IN  Res(r2.node, [x EXCEPT !.subs = <<r1.f, r2.f>>],
          Prefix(1, r1.log) \o Prefix(2, r2.log))

\* AndThen::fold running the second folder before the first
FoldAndThenSwapped(x, n) ==
  LET r2 == Fold(x.subs[2], n)
      r1 == Fold(x.subs[1], r2.node)
  IN  Res(r1.node, [x EXCEPT !.subs = <<r1.f, r2.f>>],
          Prefix(2, r2.log) \o Prefix(1, r1.log))

\* impl Fold<T> for AndThen<F1, F2>
FoldAndThen(x, n) ==
  LET r1 == Fold(x.subs[1], n)
      r2 == Fold(x.subs[2], r1.node)
  IN  Res(r2.node, [x EXCEPT !.subs = <<r1.f, r2.f>>],
          Prefix(1, r1.log) \o Prefix(2, r2.log))

\* x.fold(n)
Fold(x, n) ==
  CASE x.kind = "Base"    -> FoldDispatch(x, n)
    [] x.kind = "Box"     -> FoldBox(x, n)
    [] x.kind = "RefMut"  -> FoldRefMut(x, n)
    [] x.kind = "AndThen" -> FoldAndThen(x, n)

\* FoldWith::fold_with
FoldWith(n, x) == Fold(x, n)

\* FoldWith<F> for !
FoldChildrenNever(n, x) == Res(n, x, <<>>)

\* FoldWith<F> for Box<T>
FoldChildrenBox(n, x) ==
  LET r == Fold(x, n.cs[1]) IN Res(MkBox(n.t, r.node), r.f, r.log)

\* the elements folded last to first, each result kept at its own index
FoldEachBackwards(es, x) ==
  IF es = <<>> THEN [nodes |-> <<>>, f |-> x, log |-> <<>>]
  ELSE LET t == FoldEach(Tail(es), x)
           h == Fold(t.f, Head(es))
       IN  [nodes |-> <<h.node>> \o t.nodes, f |-> h.f, log |-> t.log \o h.log]

\* the iterator chain of FoldWith<F> for Vec<T>: f.fold(it) on each element
\* in turn, the results collected in that order
FoldEach(es, x) ==
  IF es = <<>> THEN [nodes |-> <<>>, f |-> x, log |-> <<>>]
  ELSE LET h == Fold(x, Head(es))
           t == FoldEach(Tail(es), h.f)
       IN  [nodes |-> <<h.node>> \o t.nodes, f |-> t.f, log |-> h.log \o t.log]

\* FoldWith<F> for Vec<T>
FoldChildrenVec(n, x) ==
  LET r == FoldEach(n.cs, x) IN Res(MkVec(n.t, r.nodes), r.f, r.log)

\* Option::fold_children losing the present child
FoldChildrenOptionDrop(n, x) ==
  IF n.v = "Some"
  THEN LET r == Fold(x, n.cs[1]) IN Res(None(n.t), r.f, r.log)
  ELSE Res(None(n.t), x, <<>>)

\* FoldWith<F> for Option<T>
FoldChildrenOption(n, x) ==
  IF n.v = "Some"
  THEN LET r == Fold(x, n.cs[1]) IN Res(Some(n.t, r.node), r.f, r.log)
  ELSE Res(None(n.t), x, <<>>)

\* FoldWith<F> for String
FoldChildrenString(n, x) == Res(n, x, <<>>)

\* Atom::fold_children returning the empty atom
FoldChildrenAtomReset(n, x) == Res(Leaf(n.t, ""), x, <<>>)

\* FoldWith<F> for Atom<S>
FoldChildrenAtom(n, x) == Res(n, x, <<>>)

\* Either::fold_children rebuilding under the other alternative
FoldChildrenEitherFlip(n, x) ==
  LET r == Fold(x, n.cs[1]) IN
  IF n.v = "Left" THEN Res(Right(n.t, r.node), r.f, r.log)
  ELSE Res(Left(n.t, r.node), r.f, r.log)

\* FoldWith<F> for Either<A, B>
FoldChildrenEither(n, x) ==
  IF n.v = "Left"
  THEN LET r == Fold(x, n.cs[1]) IN Res(Left(n.t, r.node), r.f, r.log)
  ELSE LET r == Fold(x, n.cs[1]) IN Res(Right(n.t, r.node), r.f, r.log)

\* n.fold_children(x): the impl of FoldWith<F> for n's type
FoldChildren(n, x) ==
  CASE ShapeOf(n) = "Never"  -> FoldChildrenNever(n, x)
    [] ShapeOf(n) = "Box"    -> FoldChildrenBox(n, x)
    [] ShapeOf(n) = "Vec"    -> FoldChildrenVec(n, x)
    [] ShapeOf(n) = "Option" -> FoldChildrenOption(n, x)
    [] ShapeOf(n) = "String" -> FoldChildrenString(n, x)
    [] ShapeOf(n) = "Atom"   -> FoldChildrenAtom(n, x)
    [] ShapeOf(n) = "Either" -> FoldChildrenEither(n, x)

(* ----------------------------------------------------------------- visit *)

\* what a visit returns: the traverser as the walk left it and the impl
\* invocations it made
VRes(x, l) == [f |-> x, log |-> l]

RECURSIVE Visit(_, _)
RECURSIVE VisitChildren(_, _)
RECURSIVE VisitEach(_, _)

\* the author's impl Visit<T> for F: `fn visit(&mut self, node: &T)` of the
\* rule named VRule(x, n.t)
VisitRule(x, n) ==
  LET r == VRule(x, n.t) IN
  CASE r = "count"     -> VRes([x EXCEPT !.st = @ + 1], <<Ev("rule", n)>>)
    [] r = "skip"      -> VRes(x, <<Ev("rule", n)>>)
    [] r = "count_rec" -> LET c == VisitChildren(n, [x EXCEPT !.st = @ + 1]) IN
                          VRes(c.f, <<Ev("rule", n)>> \o c.log)

\* impl<T, F> Visit<T> for F: default fn visit
VisitDefault(x, n) ==
  LET c == VisitChildren(n, x) IN VRes(c.f, <<Ev("default", n)>> \o c.log)

\* which impl of Visit<T> the compiler selects for a Base traverser
VisitDispatch(x, n) ==
  IF VRule(x, n.t) # "none" THEN VisitRule(x, n) ELSE VisitDefault(x, n)

\* impl Visit<T> for Box<F>
VisitBox(x, n) ==
  LET r == Visit(x.subs[1], n) IN VRes([x EXCEPT !.subs = <<r.f>>], r.log)

\* impl Visit<T> for &'a mut F
VisitRefMut(x, n) ==
  LET r == Visit(x.subs[1], n) IN VRes([x EXCEPT !.subs = <<r.f>>], r.log)

\* AndThen::visit skipping the second visitor when the first recorded nothing
VisitAndThenShort(x, n) ==
  LET r1 == Visit(x.subs[1], n)
      r2 == IF r1.f = x.subs[1] THEN VRes(x.subs[2], <<>>) ELSE Visit(x.subs[2], n)
  IN  VRes([x EXCEPT !.subs = <<r1.f, r2.f>>], Prefix(1, r1.log) \o Prefix(2, r2.log))

\* impl Visit<T> for AndThen<F1, F2>
VisitAndThen(x, n) ==
  LET r1 == Visit(x.subs[1], n)
      r2 == Visit(x.subs[2], n)
  IN  VRes([x EXCEPT !.subs = <<r1.f, r2.f>>], Prefix(1, r1.log) \o Prefix(2, r2.log))

\* x.visit(&n)
Visit(x, n) ==
  CASE x.kind = "Base"    -> VisitDispatch(x, n)
    [] x.kind = "Box"     -> VisitBox(x, n)
    [] x.kind = "RefMut"  -> VisitRefMut(x, n)
    [] x.kind = "AndThen" -> VisitAndThen(x, n)

\* VisitWith::visit_with
VisitWith(n, x) == Visit(x, n)

\* VisitWith<F> for !
VisitChildrenNever(n, x) == VRes(x, <<>>)

\* VisitWith<F> for Box<T>
VisitChildrenBox(n, x) == Visit(x, n.cs[1])

\* self.iter().for_each(|node| f.visit(node))
VisitEach(es, x) ==
  IF es = <<>> THEN VRes(x, <<>>)
  ELSE LET h == Visit(x, Head(es))
           t == VisitEach(Tail(es), h.f)
       IN  VRes(t.f, h.log \o t.log)

\* VisitWith<F> for Vec<T>
VisitChildrenVec(n, x) == VisitEach(n.cs, x)

\* VisitWith<F> for Option<T>
VisitChildrenOption(n, x) ==
  IF n.v = "Some" THEN Visit(x, n.cs[1]) ELSE VRes(x, <<>>)

\* VisitWith<F> for String
VisitChildrenString(n, x) == VRes(x, <<>>)

\* VisitWith<F> for Atom<S>
VisitChildrenAtom(n, x) == VRes(x, <<>>)

\* Either::visit_children observing the first alternative only
VisitChildrenEitherLeft(n, x) ==
  IF n.v = "Left" THEN Visit(x, n.cs[1]) ELSE VRes(x, <<>>)

\* VisitWith<F> for Either<A, B>
VisitChildrenEither(n, x) ==
  IF n.v = "Left" THEN Visit(x, n.cs[1]) ELSE Visit(x, n.cs[1])

\* n.visit_children(x): the impl of VisitWith<F> for n's type
VisitChildren(n, x) ==
  CASE ShapeOf(n) = "Never"  -> VisitChildrenNever(n, x)
    [] ShapeOf(n) = "Box"    -> VisitChildrenBox(n, x)
    [] ShapeOf(n) = "Vec"    -> VisitChildrenVec(n, x)
    [] ShapeOf(n) = "Option" -> VisitChildrenOption(n, x)
    [] ShapeOf(n) = "String" -> VisitChildrenString(n, x)
    [] ShapeOf(n) = "Atom"   -> VisitChildrenAtom(n, x)
    [] ShapeOf(n) = "Either" -> VisitChildrenEither(n, x)

(* ----------------------------------------------------------- the program *)

\* the trees handed to chained traversers
ChainNodes == UNION {ValuesOf(t) : t \in {"String", "VecStr", "OptStr", "EitherSA"}}

\* the traversers chained by then
Combinable == {Plain, Upper, Number, Mark, SeqRule}

\* the traversers put behind a Box or a &mut
FwdTargets == Profiles \cup {Then(Upper, Mark), Then(Number, SeqRule)}

\* the caller holds a tree and a freshly constructed traverser
Start(fs, ns) ==
  /\ f \in fs
  /\ node \in ns
  /\ log = <<>>
  /\ op = "none"
  /\ f0 = f
  /\ node0 = node

Init == Start(Profiles, Nodes)

InitThen == Start(Combinable, ChainNodes)

InitFwd == Start(FwdTargets, Nodes)

\* f = f.then(g)
DoThen ==
  /\ op = "none"
  /\ \E g \in Combinable :
       /\ Parts(f) + Parts(g) <= MaxParts
       /\ f' = Then(f, g)
  /\ f0' = f'
  /\ UNCHANGED <<node, log, op, node0>>

\* f = g.then(f)
DoThenAfter ==
  /\ op = "none"
  /\ \E g \in Combinable :
       /\ Parts(g) + Parts(f) <= MaxParts
       /\ f' = Then(g, f)
  /\ f0' = f'
  /\ UNCHANGED <<node, log, op, node0>>

\* f = Box::new(f)
DoBox ==
  /\ op = "none"
  /\ Wraps(f) < MaxWrap
  /\ f' = BoxOf(f)
  /\ f0' = f'
  /\ UNCHANGED <<node, log, op, node0>>

\* f = &mut f
DoRefMut ==
  /\ op = "none"
  /\ Wraps(f) < MaxWrap
  /\ f' = RefMutOf(f)
  /\ f0' = f'
  /\ UNCHANGED <<node, log, op, node0>>

\* node = node.fold_with(&mut f)
DoFold ==
  /\ op = "none"
  /\ LET r == FoldWith(node, f) IN
       /\ node' = r.node
       /\ f' = r.f
       /\ log' = r.log
  /\ op' = "fold"
  /\ UNCHANGED <<f0, node0>>

\* node.visit_with(&mut f)
DoVisit ==
  /\ op = "none"
  /\ LET r == VisitWith(node, f) IN
       /\ f' = r.f
       /\ log' = r.log
  /\ op' = "visit"
  /\ UNCHANGED <<node, f0, node0>>

\* one traversal by a traverser used directly
Next == DoFold \/ DoVisit

Spec == Init /\ [][Next]_vars

\* traversers chained by then, then one traversal
NextThen == DoThen \/ DoThenAfter \/ DoFold \/ DoVisit

SpecThen == InitThen /\ [][NextThen]_vars

\* traversers behind Box / &mut, then one traversal
NextFwd == DoBox \/ DoRefMut \/ DoFold \/ DoVisit

SpecFwd == InitFwd /\ [][NextFwd]_vars

(* ------------------------------------------------------------ properties *)

RECURSIVE Concat(_)
\* the sequences of ss joined in order
Concat(ss) == IF ss = <<>> THEN <<>> ELSE Head(ss) \o Concat(Tail(ss))

\* the nodes of a log, in call order
LogNodes(l) == [k \in 1..Len(l) |-> l[k].n]

\* the leaves of type ty in n, left to right, depth first
RECURSIVE LeavesOf(_, _)
LeavesOf(n, ty) ==
  IF ShapeOf(n) \in LeafTypes THEN (IF n.t = ty THEN <<n>> ELSE <<>>)
  ELSE Concat([i \in 1..Len(n.cs) |-> LeavesOf(n.cs[i], ty)])

\* the leaves of n, left to right, depth first
RECURSIVE AllLeaves(_)
AllLeaves(n) ==
  IF ShapeOf(n) \in LeafTypes THEN <<n>>
  ELSE Concat([i \in 1..Len(n.cs) |-> AllLeaves(n.cs[i])])

\* the entries of l made by the first (i = 1) or second (i = 2) part of a pair
Side(l, i) == SelectSeq(l, LAMBDA e : e.path # <<>> /\ Head(e.path) = i)

\* l with the leading path element of every entry removed
Unprefix(l) == [k \in 1..Len(l) |-> [l[k] EXCEPT !.path = Tail(@)]]

\* C1: folding N with F1.then(F2) returns F2.fold(mid) for mid = F1.fold(N),
\* each part keeps the state its own walk left, and all of F1's invocations
\* come before F2's, whose first one is handed mid
C1_ThenFoldIsComposition ==
  (op = "fold" /\ f0.kind = "AndThen") =>
    LET mid == Fold(f0.subs[1], node0)
        out == Fold(f0.subs[2], mid.node)
        n1  == Len(Side(log, 1))
    IN  /\ node = out.node
        /\ f.subs = <<mid.f, out.f>>
        /\ Unprefix(Side(log, 1)) = mid.log
        /\ Unprefix(Side(log, 2)) = out.log
        /\ Len(log) = n1 + Len(Side(log, 2))
        /\ \A k \in 1..Len(log) : Head(log[k].path) = (IF k <= n1 THEN 1 ELSE 2)
        /\ Len(log) > n1
        /\ log[n1 + 1].n = mid.node

\* a composite was folded where F1 changed the node and F2 changed it again,
\* to something F2 would not have made of the original node
C1_Witness ==
  /\ op = "fold"
  /\ f0.kind = "AndThen"
  /\ LET mid == Fold(f0.subs[1], node0) IN
       /\ mid.node # node0
       /\ node # mid.node
       /\ Fold(f0.subs[2], node0).node # node

\* C2: observing N with F1.then(F2) makes F1 observe N, then F2 observe the
\* same N: all of F1's invocations come before F2's, F2 always runs, each
\* part observes exactly what it observes of N alone, and N is unchanged
C2_ThenVisitSameNode ==
  (op = "visit" /\ f0.kind = "AndThen") =>
    LET v1 == Visit(f0.subs[1], node0)
        v2 == Visit(f0.subs[2], node0)
        n1 == Len(Side(log, 1))
    IN  /\ node = node0
        /\ n1 >= 1
        /\ Len(log) > n1
        /\ Len(log) = n1 + Len(Side(log, 2))
        /\ \A k \in 1..Len(log) : Head(log[k].path) = (IF k <= n1 THEN 1 ELSE 2)
        /\ log[1].n = node0
        /\ log[n1 + 1].n = node0
        /\ Unprefix(Side(log, 1)) = v1.log
        /\ Unprefix(Side(log, 2)) = v2.log
        /\ f.subs = <<v1.f, v2.f>>

\* a composite observed a tree in which both parts made several invocations
\* and F1 left its state as it was
C2_Witness ==
  /\ op = "visit"
  /\ f0.kind = "AndThen"
  /\ Len(Side(log, 1)) >= 2
  /\ Len(Side(log, 2)) >= 2
  /\ f.subs[1] = f0.subs[1]
  /\ f.subs[2] # f0.subs[2]

RECURSIVE Flat(_)
\* the Base traversers of x in left-to-right construction order
Flat(x) == IF x.kind = "Base" THEN <<x>>
           ELSE IF x.kind = "AndThen" THEN Flat(x.subs[1]) \o Flat(x.subs[2])
           ELSE Flat(x.subs[1])

RECURSIVE Rank(_, _)
\* the position in Flat(x) of the Base traverser at path p of x
Rank(x, p) ==
  IF x.kind = "Base" THEN 1
  ELSE IF x.kind = "AndThen"
       THEN IF Head(p) = 1 THEN Rank(x.subs[1], Tail(p))
            ELSE Parts(x.subs[1]) + Rank(x.subs[2], Tail(p))
       ELSE Rank(x.subs[1], p)

\* the other grouping of a chain of three
Regroup(x) ==
  IF x.subs[1].kind = "AndThen"
  THEN Then(x.subs[1].subs[1], Then(x.subs[1].subs[2], x.subs[2]))
  ELSE Then(Then(x.subs[1], x.subs[2].subs[1]), x.subs[2].subs[2])

\* C3: the two groupings of a chain of three fold a node to the same value
\* and leave the three parts in the same states, and in every chain, folded
\* or observed, the parts run in left-to-right construction order
C3_ThenAssociative ==
  /\ (op # "none" /\ f0.kind = "AndThen") =>
        /\ \A i, j \in 1..Len(log) :
             i < j => Rank(f0, log[i].path) <= Rank(f0, log[j].path)
        /\ \A k \in 1..Parts(f0) : \E i \in 1..Len(log) : Rank(f0, log[i].path) = k
  /\ (op = "fold" /\ f0.kind = "AndThen" /\ Parts(f0) = 3) =>
        LET r == Fold(Regroup(f0), node0) IN
          /\ node = r.node
          /\ Flat(f) = Flat(r.f)
          /\ LogNodes(log) = LogNodes(r.log)
  /\ (op = "visit" /\ f0.kind = "AndThen" /\ Parts(f0) = 3) =>
        LET r == Visit(Regroup(f0), node0) IN
          /\ Flat(f) = Flat(r.f)
          /\ LogNodes(log) = LogNodes(r.log)

\* a chain of three grouped to the left was folded, every part changing the
\* node it was handed
C3_Witness ==
  /\ op = "fold"
  /\ Parts(f0) = 3
  /\ f0.subs[1].kind = "AndThen"
  /\ LET a == Fold(f0.subs[1].subs[1], node0)
         b == Fold(f0.subs[1].subs[2], a.node)
     IN  /\ a.node # node0
         /\ b.node # a.node
         /\ node # b.node

\* whether the rule named r walks on into the children of n
FoldRuleDescends(r, n) == r = "rev" \/ (r = "fill" /\ n.v = "Some")

VisitRuleDescends(r, n) == r = "count_rec"

\* the rule table of x that operation o consults
RulesFor(x, o) == IF o = "fold" THEN FoldImpls[x.ty] ELSE VisitImpls[x.ty]

RECURSIVE Reached(_, _, _)
\* the nodes of n a walk by x must hand to an impl, in depth-first order:
\* n itself, then the children of n unless a specific rule stops there
Reached(x, n, o) ==
  LET r == RulesFor(x, o)[n.t]
      down == \/ r = "none"
              \/ (o = "fold" /\ FoldRuleDescends(r, n))
              \/ (o = "visit" /\ VisitRuleDescends(r, n))
  IN  <<n>> \o (IF down THEN Concat([i \in 1..Len(n.cs) |-> Reached(x, n.cs[i], o)])
                ELSE <<>>)

\* C4: at every node a walk reaches exactly one impl runs, once: the specific
\* rule when F has one for the node's type (and then the children are walked
\* only if the rule does so), else the default, which is fold_children /
\* visit_children with the same F
C4_OneBehaviourPerNode ==
  (op # "none" /\ f0.kind = "Base") =>
    /\ LogNodes(log) = Reached(f0, node0, op)
    /\ \A k \in 1..Len(log) :
         /\ log[k].path = <<>>
         /\ log[k].how = "rule" <=> RulesFor(f0, op)[log[k].n.t] # "none"
         /\ log[k].how \in {"rule", "default"}
    /\ (op = "fold" /\ FRule(f0, node0.t) = "none") =>
         LET c == FoldChildren(node0, f0) IN node = c.node /\ f = c.f /\ Tail(log) = c.log
    /\ (op = "fold" /\ FRule(f0, node0.t) # "none") =>
         LET c == FoldRule(f0, node0) IN node = c.node /\ f = c.f /\ log = c.log
    /\ (op = "visit" /\ VRule(f0, node0.t) = "none") =>
         LET c == VisitChildren(node0, f0) IN f = c.f /\ Tail(log) = c.log
    /\ (op = "visit" /\ VRule(f0, node0.t) # "none") =>
         LET c == VisitRule(f0, node0) IN f = c.f /\ log = c.log

\* a fold took the default at the root and then met a node with children
\* for whose type F has a rule: the rule ran and the children were not walked
C4_Witness ==
  /\ op = "fold"
  /\ FRule(f0, node0.t) = "none"
  /\ Len(log) = 2
  /\ log[1].how = "default"
  /\ log[2].how = "rule"
  /\ log[2].n.cs # <<>>
  /\ node = node0

\* C5: folding with a transformer that has no specific rule returns a value
\* equal to the input and leaves the transformer as it was
C5_IdentityDefault ==
  (op = "fold" /\ \A t \in TypeNames : FRule(f0, t) = "none") =>
    node = node0 /\ f = f0

\* the rule-less transformer folded a sequence of two present optionals
C5_Witness ==
  /\ op = "fold"
  /\ f0 = Plain
  /\ node0.t = "VecOpt"
  /\ Len(node0.cs) = 2
  /\ \A i \in 1..2 : node0.cs[i].v = "Some"
  /\ Len(log) = 5
  /\ node = node0

\* C6 as stated: whatever the transformer, an absent optional stays absent
\* and no child-level rule runs, and a present one stays present, holding
\* the child-level result
C6_Original ==
  (op = "fold" /\ ShapeOf(node0) = "Option") =>
    /\ node0.v = "None" => (node = node0 /\ Len(log) = 1)
    /\ node0.v = "Some" => (node.v = "Some" /\ node.cs = <<Fold(f0, node0.cs[1]).node>>)

\* C6 (amended): for a transformer with no specific rule for the optional
\* type, an absent optional stays absent with no child-level call, and a
\* present one has its child folded exactly once and is rebuilt present,
\* holding that result
C6_OptionDefault ==
  (op = "fold" /\ ShapeOf(node0) = "Option" /\ FRule(f0, node0.t) = "none") =>
    /\ node0.v = "None" => (node = node0 /\ f = f0 /\ log = <<Ev("default", node0)>>)
    /\ node0.v = "Some" =>
         LET c == Fold(f0, node0.cs[1]) IN
           /\ node = Some(node0.t, c.node)
           /\ f = c.f
           /\ log = <<Ev("default", node0)>> \o c.log

\* a present optional was folded by default and its child was changed
C6_Witness ==
  /\ op = "fold"
  /\ ShapeOf(node0) = "Option"
  /\ FRule(f0, node0.t) = "none"
  /\ node0.v = "Some"
  /\ node.v = "Some"
  /\ node.cs # node0.cs

\* the transformers whose specific rules are all for leaf types
OnlyLeafRules(x, o) == \A t \in TypeNames \ LeafTypes : RulesFor(x, o)[t] = "none"

\* C7 as stated: whatever the transformer, a leaf comes back unchanged, and
\* observing a leaf makes no further invocation
C7_Original ==
  /\ (op = "fold" /\ ShapeOf(node0) \in LeafTypes) => node = node0
  /\ (op = "visit" /\ ShapeOf(node0) \in LeafTypes) => Len(log) = 1

\* C7 (amended): a leaf whose type the transformer has no specific rule for
\* comes back unchanged, at the root and wherever default traversal reaches
\* it, and observing a leaf makes no further invocation
C7_LeafDefault ==
  /\ (op = "fold" /\ ShapeOf(node0) \in LeafTypes /\ FRule(f0, node0.t) = "none") =>
       node = node0 /\ f = f0 /\ log = <<Ev("default", node0)>>
  /\ (op = "visit" /\ ShapeOf(node0) \in LeafTypes) =>
       /\ Len(log) = 1
       /\ VRule(f0, node0.t) = "none" => (f = f0 /\ log = <<Ev("default", node0)>>)
  /\ (op = "fold" /\ OnlyLeafRules(f0, "fold")) =>
       \A ty \in LeafTypes :
         FRule(f0, ty) = "none" => LeavesOf(node, ty) = LeavesOf(node0, ty)

\* a transformer with a rule for String but none for Atom folded a tree
\* that holds an Atom
C7_Witness ==
  /\ op = "fold"
  /\ FRule(f0, "String") # "none"
  /\ FRule(f0, "Atom") = "none"
  /\ node0.t = "BoxEither"
  /\ LeavesOf(node0, "Atom") # <<>>
  /\ node = node0

RECURSIVE FoldBefore(_, _, _)
\* the transformer as it stands when element i of es is about to be folded:
\* x after folding elements 1 .. i-1 in index order
FoldBefore(x, es, i) ==
  IF i = 1 THEN x ELSE Fold(FoldBefore(x, es, i - 1), es[i - 1]).f

RECURSIVE VisitBefore(_, _, _)
VisitBefore(x, es, i) ==
  IF i = 1 THEN x ELSE Visit(VisitBefore(x, es, i - 1), es[i - 1]).f

\* C8: default traversal of a sequence [e1 .. en] handles the elements in
\* index order, once each: element i is folded / observed by the traverser
\* as elements 1 .. i-1 left it, the invocations appear in that order, and
\* the rebuilt sequence has length n with the result for ei at position i
C8_SequenceOrder ==
  /\ (op = "fold" /\ ShapeOf(node0) = "Vec" /\ FRule(f0, node0.t) = "none") =>
       LET es == node0.cs
           n  == Len(es)
       IN  /\ node.t = node0.t
           /\ Len(node.cs) = n
           /\ \A i \in 1..n : node.cs[i] = Fold(FoldBefore(f0, es, i), es[i]).node
           /\ f = FoldBefore(f0, es, n + 1)
           /\ log = <<Ev("default", node0)>>
                      \o Concat([i \in 1..n |-> Fold(FoldBefore(f0, es, i), es[i]).log])
  /\ (op = "visit" /\ ShapeOf(node0) = "Vec" /\ VRule(f0, node0.t) = "none") =>
       LET es == node0.cs
           n  == Len(es)
       IN  /\ node = node0
           /\ f = VisitBefore(f0, es, n + 1)
           /\ log = <<Ev("default", node0)>>
                      \o Concat([i \in 1..n |-> Visit(VisitBefore(f0, es, i), es[i]).log])

\* the numbering transformer folded a sequence of several different
\* elements by default and numbered them in index order
C8_Witness ==
  /\ op = "fold"
  /\ ShapeOf(node0) = "Vec"
  /\ FRule(f0, node0.t) = "none"
  /\ node0.t = "VecStr"
  /\ Len(node0.cs) >= 2
  /\ node0.cs[1] # node0.cs[2]
  /\ AllLeaves(node)[1].v = "0"
  /\ AllLeaves(node)[2].v = "1"
  /\ f.st = Len(AllLeaves(node0))

\* C9: fold / visit through Box<F> or &mut F returns what F returns, makes
\* the invocations F makes, in the same order, and leaves F in the state the
\* direct call leaves it; F's specific rule is the one that runs
C9_Forwarding ==
  /\ (op = "fold" /\ f0.kind \in {"Box", "RefMut"}) =>
       LET r == Fold(f0.subs[1], node0) IN
         /\ node = r.node
         /\ log = r.log
         /\ f = [f0 EXCEPT !.subs = <<r.f>>]
  /\ (op = "visit" /\ f0.kind \in {"Box", "RefMut"}) =>
       LET r == Visit(f0.subs[1], node0) IN
         /\ node = node0
         /\ log = r.log
         /\ f = [f0 EXCEPT !.subs = <<r.f>>]
  /\ (op # "none" /\ f0.kind \in {"Box", "RefMut"} /\ f0.subs[1].kind = "Base") =>
       (log[1].how = "rule" <=> RulesFor(f0.subs[1], op)[node0.t] # "none")

\* a transformer behind a Box was folded over a node for whose type it has a
\* specific rule, which changed the node and the transformer's state
C9_Witness ==
  /\ op = "fold"
  /\ f0.kind = "Box"
  /\ f0.subs[1].kind = "Base"
  /\ FRule(f0.subs[1], node0.t) # "none"
  /\ log[1].how = "rule"
  /\ node # node0
  /\ f.subs[1].st > 0

\* the scenario tree after the uppercasing transformer
SceneTreeUpper == Scene("A", "B", "C")

\* the entries of l that ran a specific rule
RuleNodes(l) == LogNodes(SelectSeq(l, LAMBDA e : e.how = "rule"))

\* the leaves of n of the types x has a rule for, left to right, depth first
RuledLeaves(x, n, o) ==
  SelectSeq(AllLeaves(n), LAMBDA l : RulesFor(x, o)[l.t] # "none")

\* C10: under a traverser whose only specific rules are for leaf types, the
\* leaf rule runs exactly once per leaf of that type in the tree, in
\* left-to-right depth-first order, and the rest of the tree is rebuilt as
\* it was; on the scenario tree the uppercasing transformer yields the same
\* shape with leaves "A", "B", "C" and the leaf counter records 3
C10_TotalCoverage ==
  /\ (op # "none" /\ f0.kind = "Base" /\ OnlyLeafRules(f0, op)) =>
       RuleNodes(log) = RuledLeaves(f0, node0, op)
  /\ (op = "fold" /\ f0.kind = "Base" /\ OnlyLeafRules(f0, op)) =>
       /\ Len(AllLeaves(node)) = Len(AllLeaves(node0))
       /\ \A k \in 1..Len(AllLeaves(node0)) :
            LET l == AllLeaves(node0)[k] IN
              /\ AllLeaves(node)[k].t = l.t
              /\ FRule(f0, l.t) = "none" => AllLeaves(node)[k] = l
              /\ FRule(f0, l.t) = "upper" => AllLeaves(node)[k].v = ToUpper(l.v)
  /\ (op = "visit" /\ f0 = Upper) => f.st = Len(LeavesOf(node0, "String"))
  /\ (op = "fold" /\ f0 = Upper /\ node0 = SceneTree) => node = SceneTreeUpper
  /\ (op = "visit" /\ f0 = Upper /\ node0 = SceneTree) => f.st = 3

\* the uppercasing transformer folded the scenario tree
C10_Witness ==
  /\ op = "fold"
  /\ f0 = Upper
  /\ node0 = SceneTree
  /\ Len(RuleNodes(log)) = 3
  /\ node = SceneTreeUpper

====
